---- MODULE Spec2Model ----
(***************************************************************************)
(* Model of the Solace MissionControl cluster-manager provider:            *)
(*   - the fake MissionControl backend (internal/fakeserver/fakeserver.go):*)
(*     its object store and its four request handlers;                     *)
(*   - the broker resource's lifecycle (create / read / update / delete    *)
(*     with polling), which drives that backend through the REST client.   *)
(* Time is counted in whole seconds.  Identities are the numbers 1..MaxIds *)
(* (a fresh uuid per create); 0 stands for the empty string.               *)
(***************************************************************************)
EXTENDS Integers, Sequences, FiniteSets, TLC

\* ---------------------------------------------------------------- bounds
MaxTime == 6
MaxIds == 2
MaxRequests == 3
MaxOps == 3
MaxDrift == 2
MaxConc == 4
MaxInflight == 2

\* ------------------------------------------------------ program constants
\* time.Since(sInfo.Created).Seconds() > 5.0
Threshold == 5
\* orDefaultInt32(jObj["maxSpoolUsage"], 20)
DefaultMaxSpoolUsage == 20
StatusOK == 200
StatusAccepted == 202
StatusBadRequest == 400
StatusNotFound == 404
StatusInternalServerError == 500
\* a handler that panicked: net/http recovers, logs and closes the connection
\* without writing a status line
StatusAborted == 0

NoId == 0
\* the zero time.Time (a record whose Updated was never set)
NoTime == -1
Ids == 1..MaxIds

\* ------------------------------------------------------------ JSON values
\* A decoded JSON value (interface{}): nil (key absent or null), a string,
\* or a float64 number.  s is meaningful for "str", n for "num".
JNil == [t |-> "nil", s |-> "", n |-> 0]
JStr(v) == [t |-> "str", s |-> v, n |-> 0]
JNum(v) == [t |-> "num", s |-> "", n |-> v]

\* A request body: unparsable bytes, or a JSON object with these keys.
BodyKeys ==
  {"name", "serviceClassId", "datacenterId", "clusterName", "msgVpnName",
   "eventBrokerVersion", "customRouterName", "maxSpoolUsage"}
EmptyObject == [k \in BodyKeys |-> JNil]
Unparsable == [parsed |-> FALSE, obj |-> EmptyObject]
Parsed(o) == [parsed |-> TRUE, obj |-> o]

\* x.(string): panics unless x holds a string
IsString(x) == x.t = "str"
\* x.(float64): panics unless x holds a number
IsFloat64(x) == x.t = "num"

\* orDefault(s, ds); orDefaultOk: its assertion s.(string) does not panic
orDefaultOk(s) == s.t = "nil" \/ IsString(s)
orDefault(s, ds) == IF s.t # "nil" /\ s.s # "" THEN s.s ELSE ds

orDefaultInt32Ok(s) == s.t = "nil" \/ IsFloat64(s)
orDefaultInt32(s, ds) == IF s.t # "nil" THEN s.n ELSE ds

\* time.Time.Format(time.RFC3339): the instant at one-second resolution
FormatRFC3339(t) == <<"rfc3339", t>>

\* the operation id of a create or delete response: "O" + sInfo.ID
OperationId(id) == <<"O", id>>

\* -------------------------------------------------------------- responses
ErrorResponse(code) == [status |-> code, kind |-> "error", data |-> <<>>]
\* the response of a handler that panicked
Panicked == [status |-> StatusAborted, kind |-> "panic", data |-> <<>>]

\* ---------------------------------------------------------------- handlers
\* Each handler is a function of the store, the request and the clock; it
\* yields the store after the request and the response written.
Reply(objs, r) == [objects |-> objs, resp |-> r]

Put(objs, id, sInfo) ==
  [i \in DOMAIN objs \cup {id} |-> IF i = id THEN sInfo ELSE objs[i]]
Remove(objs, id) == [i \in DOMAIN objs \ {id} |-> objs[i]]

\* the type assertions of handleCreate's struct literal all succeed
CreateAssertionsOk(o) ==
  /\ IsString(o["name"])
  /\ IsString(o["serviceClassId"])
  /\ IsString(o["datacenterId"])
  /\ orDefaultOk(o["clusterName"])
  /\ orDefaultOk(o["msgVpnName"])
  /\ orDefaultOk(o["eventBrokerVersion"])
  /\ orDefaultOk(o["customRouterName"])
  /\ orDefaultInt32Ok(o["maxSpoolUsage"])

NewServiceInfo(sid, o, t) ==
  [ID |-> sid,
   Name |-> o["name"].s,
   State |-> "PENDING",
   ServiceClassId |-> o["serviceClassId"].s,
   DatacenterId |-> o["datacenterId"].s,
   ClusterName |-> orDefault(o["clusterName"], "test-cluster1"),
   MsgVpnName |-> orDefault(o["msgVpnName"], "test-vpn1"),
   EventBrokerVersion |-> orDefault(o["eventBrokerVersion"], "1.0.0"),
   CustomRouterName |-> orDefault(o["customRouterName"], "test-router1"),
   MaxSpoolUsage |-> orDefaultInt32(o["maxSpoolUsage"], DefaultMaxSpoolUsage),
   Created |-> t,
   Updated |-> NoTime,
   ClientUsername |-> "client-user",
   ClientPassword |-> "client-passwd"]

CreateResponse(sInfo) ==
  [status |-> StatusAccepted, kind |-> "create",
   data |-> [id |-> OperationId(sInfo.ID),
             resourceId |-> sInfo.ID,
             name |-> sInfo.Name,
             createdTime |-> FormatRFC3339(sInfo.Created),
             creationState |-> sInfo.State]]

\* mutant of handleCreate: the identity is a fixed value, not a fresh one
handleCreateFixedId(objs, body, sid, t) ==
  IF ~body.parsed THEN Reply(objs, ErrorResponse(StatusInternalServerError))
  ELSE IF ~CreateAssertionsOk(body.obj) THEN Reply(objs, Panicked)
  ELSE LET sInfo == NewServiceInfo(1, body.obj, t)
       IN Reply(Put(objs, 1, sInfo), CreateResponse(sInfo))

handleCreate(objs, body, sid, t) ==
  IF ~body.parsed THEN Reply(objs, ErrorResponse(StatusInternalServerError))
  ELSE IF ~CreateAssertionsOk(body.obj) THEN Reply(objs, Panicked)
  ELSE LET sInfo == NewServiceInfo(sid, body.obj, t)
       IN Reply(Put(objs, sid, sInfo), CreateResponse(sInfo))

\* mutant of CompleteIfDue: the pending record is stamped but never completed
CompleteIfDueNever(sInfo, t) ==
  IF sInfo.State = "PENDING" THEN [sInfo EXCEPT !.Updated = t] ELSE sInfo

\* mutant of CompleteIfDue: a COMPLETED record is handed on as PENDING
CompleteIfDueFlaps(sInfo, t) ==
  IF sInfo.State = "PENDING"
  THEN [sInfo EXCEPT !.Updated = t,
                     !.State = IF t - sInfo.Created > Threshold
                               THEN "COMPLETED" ELSE "PENDING"]
  ELSE [sInfo EXCEPT !.State = "PENDING"]

\* handleGet's update of the record it was handed
CompleteIfDue(sInfo, t) ==
  IF sInfo.State = "PENDING"
  THEN [sInfo EXCEPT !.Updated = t,
                     !.State = IF t - sInfo.Created > Threshold
                               THEN "COMPLETED" ELSE "PENDING"]
  ELSE sInfo

\* mutant of GetResponse: the login credential is left out, as in PatchResponse
GetResponseNoCredentials(sInfo) ==
  [status |-> StatusOK, kind |-> "get",
   data |-> [id |-> sInfo.ID,
             name |-> sInfo.Name,
             serviceClassId |-> sInfo.ServiceClassId,
             datacenterId |-> sInfo.DatacenterId,
             createdTime |-> FormatRFC3339(sInfo.Created),
             updatedTime |-> FormatRFC3339(sInfo.Updated),
             creationState |-> sInfo.State,
             eventBrokerServiceVersion |-> sInfo.EventBrokerVersion,
             clusterName |-> sInfo.ClusterName,
             primaryRouterName |-> sInfo.CustomRouterName,
             msgVpnName |-> sInfo.MsgVpnName,
             username |-> "",
             password |-> "",
             maxSpoolUsage |-> sInfo.MaxSpoolUsage]]

GetResponse(sInfo) ==
  [status |-> StatusOK, kind |-> "get",
   data |-> [id |-> sInfo.ID,
             name |-> sInfo.Name,
             serviceClassId |-> sInfo.ServiceClassId,
             datacenterId |-> sInfo.DatacenterId,
             createdTime |-> FormatRFC3339(sInfo.Created),
             updatedTime |-> FormatRFC3339(sInfo.Updated),
             creationState |-> sInfo.State,
             eventBrokerServiceVersion |-> sInfo.EventBrokerVersion,
             clusterName |-> sInfo.ClusterName,
             primaryRouterName |-> sInfo.CustomRouterName,
             msgVpnName |-> sInfo.MsgVpnName,
             username |-> sInfo.ClientUsername,
             password |-> sInfo.ClientPassword,
             maxSpoolUsage |-> sInfo.MaxSpoolUsage]]

handleGet(objs, sInfo, id, t) ==
  LET s2 == CompleteIfDue(sInfo, t)
  IN Reply(IF sInfo.State = "PENDING" THEN Put(objs, id, s2) ELSE objs,
           GetResponse(s2))

PatchResponse(sInfo) ==
  [status |-> StatusOK, kind |-> "patch",
   data |-> [id |-> sInfo.ID,
             serviceClassId |-> sInfo.ServiceClassId,
             name |-> sInfo.Name,
             createdTime |-> FormatRFC3339(sInfo.Created),
             updatedTime |-> FormatRFC3339(sInfo.Updated),
             creationState |-> sInfo.State,
             eventBrokerServiceVersion |-> sInfo.EventBrokerVersion,
             clusterName |-> sInfo.ClusterName,
             primaryRouterName |-> sInfo.CustomRouterName,
             msgVpnName |-> sInfo.MsgVpnName,
             maxSpoolUsage |-> sInfo.MaxSpoolUsage]]

\* mutant of handlePatch: the record is reset to PENDING but keeps its name
handlePatchKeepsName(objs, sInfo, id, body, t) ==
  IF ~body.parsed THEN Reply(objs, ErrorResponse(StatusInternalServerError))
  ELSE IF ~IsString(body.obj["name"]) THEN Reply(objs, Panicked)
  ELSE LET s2 == [sInfo EXCEPT !.State = "PENDING", !.Updated = t]
       IN Reply(Put(objs, id, s2), PatchResponse(s2))

\* mutant of handlePatch: the creation time is stamped as well
handlePatchStampsCreated(objs, sInfo, id, body, t) ==
  IF ~body.parsed THEN Reply(objs, ErrorResponse(StatusInternalServerError))
  ELSE IF ~IsString(body.obj["name"]) THEN Reply(objs, Panicked)
  ELSE LET s2 == [sInfo EXCEPT !.Name = body.obj["name"].s,
                               !.State = "PENDING",
                               !.Updated = t,
                               !.Created = t]
       IN Reply(Put(objs, id, s2), PatchResponse(s2))

handlePatch(objs, sInfo, id, body, t) ==
  IF ~body.parsed THEN Reply(objs, ErrorResponse(StatusInternalServerError))
  ELSE IF ~IsString(body.obj["name"]) THEN Reply(objs, Panicked)
  ELSE LET s2 == [sInfo EXCEPT !.Name = body.obj["name"].s,
                               !.State = "PENDING",
                               !.Updated = t]
       IN Reply(Put(objs, id, s2), PatchResponse(s2))

DeleteResponse(sInfo) ==
  [status |-> StatusAccepted, kind |-> "delete",
   data |-> [id |-> OperationId(sInfo.ID),
             resourceId |-> sInfo.ID,
             name |-> sInfo.Name,
             createdTime |-> FormatRFC3339(sInfo.Created),
             status |-> "PENDING"]]

\* mutant of handleDelete: the record is answered as deleted but kept
handleDeleteKeeps(objs, sInfo, id) == Reply(objs, DeleteResponse(sInfo))

\* mutant of handleDelete: a soft delete, the record is marked and kept
handleDeleteSoft(objs, sInfo, id) ==
  Reply(Put(objs, id, [sInfo EXCEPT !.State = "DELETED"]), DeleteResponse(sInfo))

\* mutant of handleDelete: the whole store is cleared
handleDeleteAll(objs, sInfo, id) == Reply(<<>>, DeleteResponse(sInfo))

handleDelete(objs, sInfo, id) == Reply(Remove(objs, id), DeleteResponse(sInfo))

\* mutant of NotFoundStatus: a missing identity is answered as a server error
NotFoundAsServerError == StatusInternalServerError

\* the status answered for an identity that is not in the store
NotFoundStatus == StatusNotFound

\* A request: method, the number of "/"-separated parts of its path (the
\* first part is empty) and parts[5] when there is one.
handleBrokerServices(objs, method, nparts, id, body, sid, t) ==
  IF (nparts = 5 \/ (nparts = 6 /\ id = NoId)) /\ method = "POST"
  THEN handleCreate(objs, body, sid, t)
  ELSE IF nparts = 6
  THEN IF id \notin DOMAIN objs
       THEN Reply(objs, ErrorResponse(NotFoundStatus))
       ELSE CASE method = "GET" -> handleGet(objs, objs[id], id, t)
              [] method = "PATCH" -> handlePatch(objs, objs[id], id, body, t)
              [] method = "DELETE" -> handleDelete(objs, objs[id], id)
              [] OTHER -> Reply(objs, ErrorResponse(StatusBadRequest))
  ELSE Reply(objs, ErrorResponse(StatusBadRequest))

\* ---------------------------------------------------- provider: values
\* A string is the sequence of its characters.  A types.String of the
\* configuration is null, unknown, or a known string.
EmptyString == <<>>
TfNull == [k |-> "null", s |-> EmptyString]
TfUnknown == [k |-> "unknown", s |-> EmptyString]
TfString(v) == [k |-> "value", s |-> v]
IsNull(x) == x.k = "null"
IsUnknown(x) == x.k = "unknown"
\* the known value, and "" for null and unknown
ValueString(x) == IF x.k = "value" THEN x.s ELSE EmptyString

\* time.ParseDuration over the characters the inputs use: an optional sign,
\* then "0" or one or more groups of decimal digits and a unit (s, m or h);
\* the result counts seconds.  Fractions and the sub-second units are not in
\* the inputs' alphabet.
Digits == {"0", "1", "2", "3", "4", "5", "6", "7", "8", "9"}
DigitValue(c) ==
  CASE c = "0" -> 0 [] c = "1" -> 1 [] c = "2" -> 2 [] c = "3" -> 3
    [] c = "4" -> 4 [] c = "5" -> 5 [] c = "6" -> 6 [] c = "7" -> 7
    [] c = "8" -> 8 [] c = "9" -> 9
InvalidDuration == [ok |-> FALSE, d |-> 0]

RECURSIVE leadingInt(_, _)
leadingInt(s, x) ==
  IF s # <<>> /\ Head(s) \in Digits
  THEN leadingInt(Tail(s), 10 * x + DigitValue(Head(s)))
  ELSE [x |-> x, rem |-> s]

RECURSIVE unitOf(_, _)
unitOf(s, u) ==
  IF s # <<>> /\ Head(s) \notin Digits
  THEN unitOf(Tail(s), Append(u, Head(s)))
  ELSE [u |-> u, rem |-> s]

unitMap ==
  [u \in {<<"s">>, <<"m">>, <<"h">>} |->
     CASE u = <<"s">> -> 1 [] u = <<"m">> -> 60 [] u = <<"h">> -> 3600]

RECURSIVE parseGroups(_, _)
parseGroups(s, d) ==
  IF s = <<>> THEN [ok |-> TRUE, d |-> d]
  ELSE IF Head(s) \notin Digits THEN InvalidDuration
  ELSE LET n == leadingInt(s, 0)
           u == unitOf(n.rem, <<>>)
       IN IF u.u = <<>> THEN InvalidDuration
          ELSE IF u.u \notin DOMAIN unitMap THEN InvalidDuration
          ELSE parseGroups(u.rem, d + n.x * unitMap[u.u])

ParseDuration(str) ==
  LET signed == str # <<>> /\ Head(str) \in {"-", "+"}
      neg == str # <<>> /\ Head(str) = "-"
      s == IF signed THEN Tail(str) ELSE str
  IN IF s = <<"0">> THEN [ok |-> TRUE, d |-> 0]
     ELSE IF s = <<>> THEN InvalidDuration
     ELSE LET r == parseGroups(s, 0)
          IN IF r.ok /\ neg THEN [ok |-> TRUE, d |-> 0 - r.d] ELSE r

DefaultInterval == <<"2", "0", "s">>
DefaultTimeout == <<"3", "0", "m">>

\* mutant of Override: a set environment variable wins over the configuration
OverrideEnvWins(fromEnv, c) ==
  IF fromEnv # EmptyString THEN fromEnv
  ELSE IF ~IsNull(c) THEN ValueString(c) ELSE fromEnv

\* a local that starts as the environment variable's value and is overridden
\* by the configuration value when that is not null
Override(fromEnv, c) == IF ~IsNull(c) THEN ValueString(c) ELSE fromEnv

DefaultIfEmpty(str, def) == IF str = EmptyString THEN def ELSE str

NoClient == [set |-> FALSE, url |-> EmptyString]
NewClientWithResponses(host) == [set |-> TRUE, url |-> host]

\* mutant of ConfigureFailed: the errors are recorded, but Configure goes on
\* and hands out a client and provider data
ConfigureFailedOpen(errors) ==
  [diagnostics |-> errors, client |-> NewClientWithResponses(EmptyString),
   token |-> EmptyString, interval |-> 0, timeout |-> 0]

ConfigureFailed(errors) ==
  [diagnostics |-> errors, client |-> NoClient, token |-> EmptyString,
   interval |-> 0, timeout |-> 0]

\* Configure, from the configuration, the environment, and whether the
\* client library accepts the server URL
ConfigureResult(cfg, e, clientOk) ==
  LET unknown ==
        {x \in {"UnknownHost"} : IsUnknown(cfg.host)}
          \cup {x \in {"UnknownToken"} : IsUnknown(cfg.bearer_token)}
      host == Override(e.MISSIONCONTROL_HOST, cfg.host)
      bearerToken == Override(e.MISSIONCONTROL_TOKEN, cfg.bearer_token)
      pollingIntervalDurationStr ==
        DefaultIfEmpty(Override(e.POLLING_INTERVAL_DURATION,
                                cfg.polling_interval_duration),
                       DefaultInterval)
      pollingTimeoutDurationStr ==
        DefaultIfEmpty(Override(e.POLLING_TIMEOUT_DURATION,
                                cfg.polling_timeout_duration),
                       DefaultTimeout)
      pollingIntervalDuration == ParseDuration(pollingIntervalDurationStr)
      pollingTimeoutDuration == ParseDuration(pollingTimeoutDurationStr)
      errors ==
        {x \in {"MissingHost"} : host = EmptyString}
          \cup {x \in {"MissingToken"} : bearerToken = EmptyString}
          \cup {x \in {"InvalidInterval"} : ~pollingIntervalDuration.ok}
          \cup {x \in {"InvalidTimeout"} : ~pollingTimeoutDuration.ok}
  IN IF unknown # {} THEN ConfigureFailed(unknown)
     ELSE IF errors # {} THEN ConfigureFailed(errors)
     ELSE IF ~clientOk THEN ConfigureFailed({"ClientError"})
     ELSE [diagnostics |-> {},
           client |-> NewClientWithResponses(host),
           token |-> bearerToken,
           interval |-> pollingIntervalDuration.d,
           timeout |-> pollingTimeoutDuration.d]

\* ------------------------------------------------------------------ state
VARIABLES
  objects,    \* Fakeserver.objects: identity -> ServiceInfo
  now,        \* the clock, in seconds
  nextId,     \* the next identity uuid.New() hands out
  resp,       \* the response to the most recent request
  trigger,    \* history: identity -> time of its most recent accepted Create or Update
  handled,    \* history: the number of requests sent to the backend directly
  inflight,   \* the requests whose handler goroutine has looked up its record
  acked,      \* history: identity -> the name of the last PATCH answered
  config,     \* ConfigureRequest.Config: the provider block's attributes
  env,        \* the process environment's four variables
  diagnostics,\* ConfigureResponse.Diagnostics: the errors added
  client,     \* CMProviderData.Client: the server URL it was created for
  token,      \* CMProviderData.BearerToken
  interval,   \* CMProviderData.PollingIntervalDuration
  timeout,    \* CMProviderData.PollingTimeoutDuration
  rpc,        \* where the resource operation in progress stands ("idle": none)
  op,         \* the resource operation in progress, or the last one
  desired,    \* the desired ServiceDescriptor of that operation
  current,    \* the resource's known state, NoState when there is none
  prior,      \* history: the known state when that operation started
  target,     \* the identity that operation addresses
  calls,      \* history: the backend calls that operation has issued
  pollStart,  \* when the Poller was started
  result,     \* the outcome of the last finished operation
  ops         \* history: the number of resource operations started

concVars == <<inflight, acked>>
backendVars == <<objects, now, nextId, resp, trigger, handled, concVars>>
providerVars == <<config, env, diagnostics, client, token, interval, timeout>>
resourceVars ==
  <<providerVars, rpc, op, desired, current, prior, target, calls, pollStart,
    result, ops>>
vars ==
  <<objects, now, nextId, resp, trigger, handled, inflight, acked, config,
    env, diagnostics, client, token, interval, timeout, rpc, op, desired,
    current, prior, target, calls, pollStart, result, ops>>

NoResponse == [status |-> StatusAborted, kind |-> "none", data |-> <<>>]
\* the request never reached the backend
NoConnection == [status |-> StatusAborted, kind |-> "transport", data |-> <<>>]

NoState == [id |-> NoId]
NoDesired ==
  [id |-> NoId, name |-> "", serviceClassId |-> "", datacenterId |-> "",
   eventBrokerVersion |-> JNil]
NoResult == [kind |-> "none", status |-> ""]

InitBackend ==
  /\ objects = <<>>
  /\ now = 0
  /\ nextId = 1
  /\ resp = NoResponse
  /\ trigger = <<>>
  /\ handled = 0
  /\ inflight = {}
  /\ acked = <<>>

InitResource ==
  /\ rpc = "idle"
  /\ op = "none"
  /\ desired = NoDesired
  /\ current = NoState
  /\ prior = NoState
  /\ target = NoId
  /\ calls = <<>>
  /\ pollStart = 0
  /\ result = NoResult
  /\ ops = 0

\* the provider as the acceptance tests run it: nothing in the provider
\* block, server URL and token from the environment; Configure has returned
TestEnv ==
  [MISSIONCONTROL_HOST |-> <<"h">>,
   MISSIONCONTROL_TOKEN |-> <<"t">>,
   POLLING_INTERVAL_DURATION |-> EmptyString,
   POLLING_TIMEOUT_DURATION |-> EmptyString]
NullConfig ==
  [host |-> TfNull, bearer_token |-> TfNull,
   polling_interval_duration |-> TfNull, polling_timeout_duration |-> TfNull]
InitProvider ==
  /\ config = NullConfig
  /\ env = TestEnv
  /\ diagnostics = {}
  /\ client = NewClientWithResponses(TestEnv.MISSIONCONTROL_HOST)
  /\ token = TestEnv.MISSIONCONTROL_TOKEN

Init ==
  /\ InitBackend
  /\ InitResource
  /\ InitProvider
  /\ interval = 1
  /\ timeout = 1

\* ----------------------------------------------------- requests (inputs)
ValidMinimal ==
  [EmptyObject EXCEPT !["name"] = JStr("a"),
                      !["serviceClassId"] = JStr("c1"),
                      !["datacenterId"] = JStr("d1")]
ValidFull ==
  [EmptyObject EXCEPT !["name"] = JStr("b"),
                      !["serviceClassId"] = JStr("c2"),
                      !["datacenterId"] = JStr("d2"),
                      !["clusterName"] = JStr("cluster"),
                      !["msgVpnName"] = JStr(""),
                      !["eventBrokerVersion"] = JStr("v2"),
                      !["customRouterName"] = JStr("router"),
                      !["maxSpoolUsage"] = JNum(50)]

\* bodies handleCreate stores a record for
ValidCreateBodies == {Parsed(ValidMinimal), Parsed(ValidFull)}

\* bodies that are no JSON object, or lack a required field, or hold a value
\* of the wrong type
MalformedCreateBodies ==
  {Unparsable,
   Parsed(EmptyObject),
   Parsed([ValidMinimal EXCEPT !["name"] = JNil]),
   Parsed([ValidMinimal EXCEPT !["serviceClassId"] = JNil]),
   Parsed([ValidMinimal EXCEPT !["datacenterId"] = JNil]),
   Parsed([ValidMinimal EXCEPT !["name"] = JNum(7)]),
   Parsed([ValidMinimal EXCEPT !["maxSpoolUsage"] = JStr("50")])}

ValidPatchBodies ==
  {Parsed([EmptyObject EXCEPT !["name"] = JStr(n)]) : n \in {"a", "b"}}
MalformedPatchBodies ==
  {Unparsable, Parsed(EmptyObject),
   Parsed([EmptyObject EXCEPT !["name"] = JNum(7)])}

NoBody == Unparsable

\* ------------------------------------------------------- backend actions
\* One HTTP request handled by handleBrokerServices, start to end.
Serve(method, nparts, id, body) ==
  LET r == handleBrokerServices(objects, method, nparts, id, body, nextId, now)
      stored == r.resp.kind \in {"create", "patch"}
      key == IF r.resp.kind = "create" THEN r.resp.data.resourceId ELSE id
  IN /\ objects' = r.objects
     /\ resp' = r.resp
     /\ nextId' = IF r.resp.kind = "create" THEN nextId + 1 ELSE nextId
     /\ trigger' = IF stored
                   THEN [i \in DOMAIN trigger \cup {key} |->
                           IF i = key THEN now ELSE trigger[i]]
                   ELSE trigger
     /\ UNCHANGED concVars

Request(method, nparts, id, body) ==
  /\ handled < MaxRequests
  /\ handled' = handled + 1
  /\ now' = now
  /\ Serve(method, nparts, id, body)
  /\ UNCHANGED resourceVars

RequestCreate ==
  \E body \in ValidCreateBodies \cup MalformedCreateBodies, nparts \in {5, 6} :
    /\ nextId <= MaxIds
    /\ Request("POST", nparts, NoId, body)

RequestGet == \E id \in Ids : Request("GET", 6, id, NoBody)

RequestPatch ==
  \E id \in Ids, body \in ValidPatchBodies \cup MalformedPatchBodies :
    Request("PATCH", 6, id, body)

RequestDelete == \E id \in Ids : Request("DELETE", 6, id, NoBody)

\* a request handleBrokerServices has no handler for
RequestBad ==
  \E method \in {"GET", "PUT", "POST"}, nparts \in {5, 6, 7}, id \in {NoId, 1} :
    /\ ~((nparts = 5 \/ (nparts = 6 /\ id = NoId)) /\ method = "POST")
    /\ ~(nparts = 6 /\ method = "GET" /\ id # NoId)
    /\ Request(method, nparts, id, NoBody)

\* a second passes
Tick ==
  /\ rpc = "idle"
  /\ now < MaxTime
  /\ now' = now + 1
  /\ UNCHANGED <<objects, nextId, resp, trigger, handled, concVars>>
  /\ UNCHANGED resourceVars

Next ==
  \/ RequestCreate
  \/ RequestGet
  \/ RequestPatch
  \/ RequestDelete
  \/ RequestBad
  \/ Tick

Spec == Init /\ [][Next]_vars

\* ------------------------------------------- backend, concurrent requests
\* net/http runs every request's handler in a goroutine of its own, and the
\* handlers take no lock.  A request on an identity is handled in two steps:
\* handleBrokerServices copies the record out of the map, and the handler
\* later changes the copy, writes it back and answers.  Steps of different
\* requests interleave.
NoName == ""
Fatal == [status |-> StatusAborted, kind |-> "fatal", data |-> <<>>]
Running == resp.kind # "fatal"

InFlight(n, method, id, body) ==
  [n |-> n, method |-> method, id |-> id, body |-> body,
   sInfo |-> objects[id],
   expect |-> IF id \in DOMAIN acked THEN acked[id] ELSE NoName]

\* the handler of r writes to the map
Writes(r) ==
  \/ r.method \in {"PATCH", "DELETE"}
  \/ r.method = "GET" /\ r.sInfo.State = "PENDING"

\* a POST: handleCreate makes one access to the map, the store of the record
ConcCreate ==
  \E body \in ValidCreateBodies :
    /\ Running
    /\ handled < MaxConc
    /\ nextId <= MaxIds
    /\ handled' = handled + 1
    /\ now' = now
    /\ Serve("POST", 5, NoId, body)
    /\ UNCHANGED resourceVars

\* handleBrokerServices up to the switch: the lookup, and the 404
ConcStart ==
  \E method \in {"GET", "PATCH", "DELETE"}, id \in Ids,
     body \in ValidPatchBodies \cup {NoBody} :
    /\ method = "PATCH" <=> body # NoBody
    /\ Running
    /\ handled < MaxConc
    /\ Cardinality(inflight) < MaxInflight
    /\ handled' = handled + 1
    /\ IF id \notin DOMAIN objects
       THEN /\ resp' = ErrorResponse(NotFoundStatus)
            /\ inflight' = inflight
       ELSE /\ resp' = resp
            /\ inflight' = inflight \cup {InFlight(handled + 1, method, id, body)}
    /\ UNCHANGED <<objects, now, nextId, trigger, acked, resourceVars>>

\* handleGet, handlePatch or handleDelete, on the copy made at the lookup
ConcFinish ==
  \E r \in inflight :
    LET out == CASE r.method = "GET" -> handleGet(objects, r.sInfo, r.id, now)
                 [] r.method = "PATCH" ->
                      handlePatch(objects, r.sInfo, r.id, r.body, now)
                 [] r.method = "DELETE" -> handleDelete(objects, r.sInfo, r.id)
        patched == r.method = "PATCH"
    IN /\ Running
       /\ objects' = out.objects
       /\ resp' = out.resp
       /\ inflight' = inflight \ {r}
       /\ acked' = IF patched
                   THEN [i \in DOMAIN acked \cup {r.id} |->
                           IF i = r.id THEN out.resp.data.name ELSE acked[i]]
                   ELSE acked
       /\ trigger' = IF patched
                     THEN [trigger EXCEPT ![r.id] = now] ELSE trigger
       /\ UNCHANGED <<now, nextId, handled, resourceVars>>

\* Two goroutines access the map at once and one of them writes: the Go
\* runtime may detect it and end the process ("concurrent map read and map
\* write"), or the accesses take effect one after the other.
MapFault ==
  /\ Running
  /\ \E r1, r2 \in inflight : r1 # r2 /\ Writes(r1)
  /\ resp' = Fatal
  /\ inflight' = {}
  /\ UNCHANGED <<objects, now, nextId, trigger, handled, acked, resourceVars>>

NextConc ==
  \/ ConcCreate
  \/ ConcStart
  \/ ConcFinish
  \/ MapFault

\* The clock stands still: the requests overlap within the first seconds
\* after a Create, while its record is PENDING.
SpecConc == Init /\ [][NextConc]_vars

\* ------------------------------------------------ provider: Configure
\* the provider block's attributes and the environment Configure may meet
HostValues == {TfNull, TfUnknown, TfString(EmptyString), TfString(<<"h", "1">>)}
TokenValues == {TfNull, TfUnknown, TfString(EmptyString), TfString(<<"t", "1">>)}
IntervalValues ==
  {TfNull, TfUnknown, TfString(EmptyString), TfString(<<"5", "s">>),
   TfString(<<"x">>)}
TimeoutValues ==
  {TfNull, TfString(EmptyString), TfString(<<"1", "m", "3", "0", "s">>),
   TfString(<<"-", "1", "h">>)}
Configs ==
  [host : HostValues, bearer_token : TokenValues,
   polling_interval_duration : IntervalValues,
   polling_timeout_duration : TimeoutValues]
Envs ==
  [MISSIONCONTROL_HOST : {EmptyString, <<"h", "2">>},
   MISSIONCONTROL_TOKEN : {EmptyString, <<"t", "2">>},
   POLLING_INTERVAL_DURATION : {EmptyString, <<"1", "0", "s">>, <<"1", "0">>},
   POLLING_TIMEOUT_DURATION : {EmptyString, <<"2", "h">>, <<"0">>}]

Unconfigured == diagnostics = {} /\ ~client.set

Configure ==
  \E clientOk \in BOOLEAN :
    LET r == ConfigureResult(config, env, clientOk)
    IN /\ Unconfigured
       /\ diagnostics' = r.diagnostics
       /\ client' = r.client
       /\ token' = r.token
       /\ interval' = r.interval
       /\ timeout' = r.timeout
       /\ UNCHANGED <<config, env, backendVars, rpc, op, desired, current,
                      prior, target, calls, pollStart, result, ops>>

InitCfg ==
  /\ InitBackend
  /\ InitResource
  /\ config \in Configs
  /\ env \in Envs
  /\ diagnostics = {}
  /\ client = NoClient
  /\ token = EmptyString
  /\ interval = 0
  /\ timeout = 0

NextCfg == Configure

SpecCfg == InitCfg /\ [][NextCfg]_vars

\* ------------------------------------------------- immutability policy
\* The compared fields of a ServiceDescriptor.  A desired descriptor holds a
\* JSON value for the version (JNil: the attribute is omitted or null); a
\* current state is the data of a Get response.
Fields == {"id", "serviceClassId", "datacenterId", "name", "eventBrokerVersion"}

\* mutants of VersionClass: the version never forces a replacement; a null
\* desired version is compared like any other value
VersionClassNeverReplaces(want, have) == "Unchanged"
VersionClassNoExemption(want, have) ==
  IF want.t = "nil" \/ want.s # have THEN "ReplaceTriggering" ELSE "Unchanged"

\* the version attribute: a difference is ignored when the desired value is null
VersionClass(want, have) ==
  IF want.t = "nil" THEN "Unchanged"
  ELSE IF want.s # have THEN "ReplaceTriggering" ELSE "Unchanged"

\* mutant of NameClass: the name always counts as changed
NameClassAlwaysMutable(want, have) == "Mutable"

\* the name attribute may be changed in place
NameClass(want, have) == IF want # have THEN "Mutable" ELSE "Unchanged"

\* identity, class/tier, datacenter: any difference forces a replacement
ImmutableClass(want, have) ==
  IF want # have THEN "ReplaceTriggering" ELSE "Unchanged"

Classify(d, c) ==
  [f \in Fields |->
     CASE f = "id" -> ImmutableClass(d.id, c.id)
       [] f = "serviceClassId" -> ImmutableClass(d.serviceClassId, c.serviceClassId)
       [] f = "datacenterId" -> ImmutableClass(d.datacenterId, c.datacenterId)
       [] f = "name" -> NameClass(d.name, c.name)
       [] f = "eventBrokerVersion" ->
            VersionClass(d.eventBrokerVersion, c.eventBrokerServiceVersion)]

NeedsReplace(d, c) == \E f \in Fields : Classify(d, c)[f] = "ReplaceTriggering"
NeedsPatch(d, c) ==
  /\ ~NeedsReplace(d, c)
  /\ \E f \in Fields : Classify(d, c)[f] = "Mutable"

\* ------------------------------------------------------ resource inputs
\* desired descriptors: a base, and ones that differ from it in the name, the
\* class, the datacenter, the version, or several of them
Descriptor(n, c, dc, v) ==
  [id |-> NoId, name |-> n, serviceClassId |-> c, datacenterId |-> dc,
   eventBrokerVersion |-> v]
Desireds ==
  {Descriptor("a", "c1", "d1", JNil),
   Descriptor("b", "c1", "d1", JNil),
   Descriptor("a", "c1", "d2", JNil),
   Descriptor("a", "c1", "d1", JStr("v2")),
   Descriptor("b", "c2", "d1", JNil)}

\* polling configurations, in seconds: the timeout is or is not a multiple of
\* the interval, and lies below or above the backend's threshold
PollConfigs ==
  {[interval |-> 2, timeout |-> 3],
   [interval |-> 2, timeout |-> 4],
   [interval |-> 1, timeout |-> 6],
   [interval |-> 2, timeout |-> 6]}

\* the body of a create call: the desired fields
CreateBody(d) ==
  Parsed([EmptyObject EXCEPT !["name"] = JStr(d.name),
                             !["serviceClassId"] = JStr(d.serviceClassId),
                             !["datacenterId"] = JStr(d.datacenterId),
                             !["eventBrokerVersion"] = d.eventBrokerVersion])
\* the body of an update call: the mutable subset
PatchBody(d) == Parsed([EmptyObject EXCEPT !["name"] = JStr(d.name)])

Ok == [kind |-> "ok", status |-> "COMPLETED"]
Done == [kind |-> "ok", status |-> ""]
Failed(kind, status) == [kind |-> kind, status |-> status]

\* ----------------------------------------------------- resource actions
\* One call through the REST client: it reaches the backend and is handled,
\* or the transport fails and the backend never sees it.
Call(method, nparts, id, body, delivered) ==
  /\ calls' = Append(calls, <<method, id, body>>)
  /\ now' = now
  /\ handled' = handled
  /\ IF delivered
     THEN Serve(method, nparts, id, body)
     ELSE /\ resp' = NoConnection
          /\ UNCHANGED <<objects, nextId, trigger, concVars>>

Begin(name, d, id) ==
  /\ rpc = "idle"
  /\ ops < MaxOps
  /\ ops' = ops + 1
  /\ op' = name
  /\ desired' = d
  /\ target' = id
  /\ prior' = current
  /\ calls' = <<>>
  /\ UNCHANGED <<backendVars, providerVars, pollStart>>

\* Create(desired)
StartCreate ==
  \E d \in Desireds :
    /\ current = NoState
    /\ nextId <= MaxIds
    /\ Begin("Create", d, NoId)
    /\ rpc' = "create"
    /\ result' = NoResult
    /\ current' = current

\* the create call of Create, and of a replacing Update
CreateCall ==
  \E delivered \in BOOLEAN :
    /\ rpc = "create"
    /\ Call("POST", 5, NoId, CreateBody(desired), delivered)
    /\ IF resp'.status = StatusAccepted
       THEN /\ target' = resp'.data.resourceId
            /\ pollStart' = now
            /\ rpc' = "poll"
            /\ result' = result
       ELSE /\ rpc' = "idle"
            /\ result' = Failed("TransportError", "")
            /\ UNCHANGED <<target, pollStart>>
    /\ UNCHANGED <<providerVars, op, desired, current, prior, ops>>

\* mutant of TimedOut: the timeout must be strictly exceeded
TimedOutStrict(elapsed, limit) == elapsed > limit

\* the Poller's timeout test, made after a status check that was not COMPLETED
TimedOut(elapsed, limit) == elapsed >= limit

\* mutant of PollCheck: a failed status check is retried after the interval
PollCheckRetries ==
  \E delivered \in BOOLEAN :
    /\ rpc = "poll"
    /\ Call("GET", 6, target, NoBody, delivered)
    /\ IF resp'.status = StatusOK
       THEN IF resp'.data.creationState = "COMPLETED"
            THEN /\ rpc' = "idle"
                 /\ result' = Ok
                 /\ current' = resp'.data
            ELSE IF TimedOut(now - pollStart, timeout)
            THEN /\ rpc' = "idle"
                 /\ result' = Failed("TimeoutError", resp'.data.creationState)
                 /\ current' = current
            ELSE /\ rpc' = "wait"
                 /\ result' = result
                 /\ current' = current
       ELSE /\ rpc' = "wait"
            /\ result' = result
            /\ current' = current
    /\ UNCHANGED <<providerVars, op, desired, prior, target, pollStart, ops>>

\* Poll: one statusCheck (a Get of the target) and what the Poller makes of it
PollCheck ==
  \E delivered \in BOOLEAN :
    /\ rpc = "poll"
    /\ Call("GET", 6, target, NoBody, delivered)
    /\ IF resp'.status = StatusOK
       THEN IF resp'.data.creationState = "COMPLETED"
            THEN /\ rpc' = "idle"
                 /\ result' = Ok
                 /\ current' = resp'.data
            ELSE IF TimedOut(now - pollStart, timeout)
            THEN /\ rpc' = "idle"
                 /\ result' = Failed("TimeoutError", resp'.data.creationState)
                 /\ current' = current
            ELSE /\ rpc' = "wait"
                 /\ result' = result
                 /\ current' = current
       ELSE /\ rpc' = "idle"
            /\ result' = Failed(IF resp'.status = StatusNotFound
                                THEN "NotFoundError" ELSE "TransportError", "")
            /\ current' = current
    /\ UNCHANGED <<providerVars, op, desired, prior, target, pollStart, ops>>

\* Poll: the wait between two status checks
PollWait ==
  /\ rpc = "wait"
  /\ now' = now + interval
  /\ rpc' = "poll"
  /\ UNCHANGED <<objects, nextId, resp, trigger, handled, concVars,
                 providerVars, op, desired, current, prior, target, calls,
                 pollStart, result, ops>>

\* mutant of PollCancel: the cancellation is reported as a timeout
PollCancelAsTimeout ==
  /\ rpc = "wait"
  /\ rpc' = "idle"
  /\ result' = Failed("TimeoutError", resp.data.creationState)
  /\ UNCHANGED <<backendVars, providerVars, op, desired, current, prior,
                 target, calls, pollStart, ops>>

\* Poll: the cancellation signal fires during the wait between two checks
PollCancel ==
  /\ rpc = "wait"
  /\ rpc' = "idle"
  /\ result' = Failed("CancelledError", "")
  /\ UNCHANGED <<backendVars, providerVars, op, desired, current, prior,
                 target, calls, pollStart, ops>>

\* Read(identity)
StartRead ==
  /\ current # NoState
  /\ Begin("Read", NoDesired, current.id)
  /\ rpc' = "read"
  /\ result' = NoResult
  /\ current' = current

ReadCall ==
  \E delivered \in BOOLEAN :
    /\ rpc = "read"
    /\ Call("GET", 6, target, NoBody, delivered)
    /\ rpc' = "idle"
    /\ IF resp'.status = StatusOK
       THEN /\ result' = [kind |-> "ok", status |-> resp'.data.creationState]
            /\ current' = resp'.data
       ELSE IF resp'.status = StatusNotFound
       THEN /\ result' = Failed("notFound", "")
            /\ current' = NoState
       ELSE /\ result' = Failed("TransportError", "")
            /\ current' = current
    /\ UNCHANGED <<providerVars, op, desired, prior, target, pollStart, ops>>

\* Update(desired, current): classify, then replace, update in place, or nothing
StartUpdate ==
  \E d0 \in Desireds :
    LET d == [d0 EXCEPT !.id = current.id]
    IN /\ current # NoState
       /\ NeedsReplace(d, current) => nextId <= MaxIds
       /\ Begin("Update", d, current.id)
       /\ current' = current
       /\ rpc' = IF NeedsReplace(d, current) THEN "replace"
                 ELSE IF NeedsPatch(d, current) THEN "patch"
                 ELSE "idle"
       /\ result' = IF NeedsReplace(d, current) \/ NeedsPatch(d, current)
                    THEN NoResult ELSE Done

\* Update, replacing: Delete(current.identity); Create(desired) follows only
\* when the delete succeeded (not-found counts as success)
ReplaceDelete ==
  \E delivered \in BOOLEAN :
    /\ rpc = "replace"
    /\ Call("DELETE", 6, target, NoBody, delivered)
    /\ IF resp'.status \in {StatusAccepted, StatusNotFound}
       THEN /\ rpc' = "create"
            /\ current' = NoState
            /\ result' = result
       ELSE /\ rpc' = "idle"
            /\ current' = current
            /\ result' = Failed("TransportError", "")
    /\ UNCHANGED <<providerVars, op, desired, prior, target, pollStart, ops>>

\* Update, in place: send the mutable subset, then poll
PatchCall ==
  \E delivered \in BOOLEAN :
    /\ rpc = "patch"
    /\ Call("PATCH", 6, target, PatchBody(desired), delivered)
    /\ IF resp'.status = StatusOK
       THEN /\ rpc' = "poll"
            /\ pollStart' = now
            /\ result' = result
       ELSE /\ rpc' = "idle"
            /\ pollStart' = pollStart
            /\ result' = Failed(IF resp'.status = StatusNotFound
                                THEN "NotFoundError" ELSE "TransportError", "")
    /\ UNCHANGED <<providerVars, op, desired, current, prior, target, ops>>

\* Delete(identity): no polling; not-found is success
StartDelete ==
  \E id \in Ids :
    /\ Begin("Delete", NoDesired, id)
    /\ rpc' = "delete"
    /\ result' = NoResult
    /\ current' = current

DeleteOutcome(status) ==
  IF status \in {StatusAccepted, StatusNotFound}
  THEN Done ELSE Failed("TransportError", "")

DeleteCall ==
  \E delivered \in BOOLEAN :
    /\ rpc = "delete"
    /\ Call("DELETE", 6, target, NoBody, delivered)
    /\ rpc' = "idle"
    /\ result' = DeleteOutcome(resp'.status)
    /\ current' = IF result'.kind = "ok" /\ current.id = target
                  THEN NoState ELSE current
    /\ UNCHANGED <<providerVars, op, desired, prior, target, pollStart, ops>>

\* Between two operations only the clock could advance, and no operation's
\* outcome depends on that: the backend compares the clock with Created, and a
\* resource whose state is known was created more than Threshold ago.
InitRec ==
  /\ InitBackend
  /\ InitResource
  /\ InitProvider
  /\ \E c \in PollConfigs : interval = c.interval /\ timeout = c.timeout

NextRec ==
  \/ StartCreate
  \/ CreateCall
  \/ PollCheck
  \/ PollWait
  \/ StartRead
  \/ ReadCall
  \/ StartUpdate
  \/ ReplaceDelete
  \/ PatchCall
  \/ StartDelete
  \/ DeleteCall

SpecRec == InitRec /\ [][NextRec]_vars

\* The resource in its environment: a Poll may be cancelled while it waits,
\* and requests of other clients of the backend, which bypass the resource
\* (drift), are handled between the operations on a resource it manages.
InitDrift ==
  /\ InitBackend
  /\ InitResource
  /\ InitProvider
  /\ \E c \in PollConfigs :
       /\ c.timeout > Threshold
       /\ \A c2 \in PollConfigs : c2.interval <= c.interval
       /\ interval = c.interval /\ timeout = c.timeout

\* the one resource this scenario manages is created first
DriftCreate == nextId = 1 /\ StartCreate
Managed == rpc = "idle" /\ current # NoState /\ handled < MaxDrift
DriftGet == Managed /\ RequestGet
DriftPatch == Managed /\ RequestPatch
DriftDelete == Managed /\ RequestDelete

NextDrift ==
  \/ DriftCreate
  \/ CreateCall
  \/ PollCheck
  \/ PollWait
  \/ PollCancel
  \/ StartRead
  \/ ReadCall
  \/ DriftGet
  \/ DriftPatch
  \/ DriftDelete

SpecDrift == InitDrift /\ [][NextDrift]_vars

\* ================================================================ claims
Methods(cs) == [i \in DOMAIN cs |-> cs[i][1]]
Count(cs, m) == Cardinality({i \in DOMAIN cs : cs[i][1] = m})

\* An Update is under way or was the last operation; prior is the current
\* state it was given.
InUpdate == op = "Update"
ClassDiffers == desired.serviceClassId # prior.serviceClassId
DatacenterDiffers == desired.datacenterId # prior.datacenterId
NameDiffers == desired.name # prior.name
VersionDiffers ==
  /\ desired.eventBrokerVersion.t # "nil"
  /\ desired.eventBrokerVersion.s # prior.eventBrokerServiceVersion
ReplaceCase == InUpdate /\ (ClassDiffers \/ DatacenterDiffers \/ VersionDiffers)

\* C1: an Update in which a replace-triggering field differs (class,
\* datacenter, or a non-null desired version), whether or not the name differs
\* too, issues Delete(current.identity), then Create(desired), then only status
\* checks; it never issues a PATCH, and it ends with fewer than those two calls
\* only when the Delete failed.
C1_ReplaceIsDeleteThenCreate ==
  ReplaceCase =>
    /\ rpc # "patch"
    /\ \A i \in DOMAIN calls : calls[i][1] # "PATCH"
    /\ Len(calls) >= 1 => calls[1] = <<"DELETE", prior.id, NoBody>>
    /\ Len(calls) >= 2 => calls[2] = <<"POST", NoId, CreateBody(desired)>>
    /\ \A i \in DOMAIN calls : i > 2 => calls[i] = <<"GET", target, NoBody>>
    /\ rpc = "idle" =>
         \/ Len(calls) >= 2
         \/ Len(calls) = 1 /\ result.kind = "TransportError"

C1_Witness ==
  /\ ReplaceCase
  /\ NameDiffers
  /\ rpc = "idle"
  /\ result.kind = "ok"
  /\ Len(calls) > 2

\* C2: an Update in which no compared field differs issues no backend call,
\* returns at once with exactly the current state it was given, and leaves the
\* backend store as it was.
NoDifference ==
  InUpdate /\ ~ClassDiffers /\ ~DatacenterDiffers /\ ~NameDiffers /\ ~VersionDiffers

C2_NoopUpdate ==
  [][(ops' = ops + 1 /\ NoDifference')
       => /\ calls' = <<>>
          /\ rpc' = "idle"
          /\ result' = Done
          /\ current' = current
          /\ objects' = objects
          /\ resp' = resp
          /\ nextId' = nextId]_vars

C2_Witness ==
  /\ NoDifference
  /\ prior # NoState
  /\ rpc = "idle"
  /\ result = Done
  /\ calls = <<>>
  /\ current = prior

InDeleteDone == op = "Delete" /\ rpc = "idle"

C4_IdempotentDelete ==
  InDeleteDone =>
    /\ resp.status = StatusNotFound => result = Done
    /\ resp.kind # "transport" =>
         /\ resp.status \in {StatusAccepted, StatusNotFound}
         /\ result = Done
    /\ result = Done => target \notin DOMAIN objects

\* the identity was assigned by an earlier Create, is gone, and is deleted again
C4_Witness ==
  /\ InDeleteDone
  /\ target < nextId
  /\ resp.status = StatusNotFound
  /\ result = Done
  /\ target \notin DOMAIN objects

\* C5: a Poll started at the triggering call, with interval <= Threshold/2 and
\* timeout > Threshold, never ends in TimeoutError, never waits once more than
\* Threshold has elapsed, and returns COMPLETED no later than
\* Threshold + interval after it started.
Polled == op \in {"Create", "Update"} /\ Count(calls, "GET") > 0
Elapsed == now - pollStart

C5_PollConverges ==
  (2 * interval <= Threshold /\ timeout > Threshold) =>
    /\ result.kind # "TimeoutError"
    /\ rpc = "wait" => Elapsed <= Threshold
    /\ rpc = "poll" => Elapsed <= Threshold + interval
    /\ (Polled /\ rpc = "idle" /\ result = Ok) =>
         /\ Elapsed <= Threshold + interval
         /\ resp.data.creationState = "COMPLETED"

C5_Witness ==
  /\ 2 * interval <= Threshold /\ timeout > Threshold
  /\ op = "Create"
  /\ Polled
  /\ rpc = "idle"
  /\ result = Ok
  /\ Elapsed > Threshold

C7_StatusTiming ==
  /\ resp.kind \in {"create", "patch"} => resp.data.creationState = "PENDING"
  /\ (resp.kind = "get" /\ resp.data.creationState = "COMPLETED"
        /\ resp.data.id \in DOMAIN trigger)
       => now - trigger[resp.data.id] > Threshold
  /\ \A id \in DOMAIN objects :
       objects[id].State = "COMPLETED" => now - trigger[id] > Threshold

\* C8: in a replacing Update, Create is issued only once the old identity is
\* gone from the backend; a failed Delete ends the Update in an error with the
\* state kept; a failure after the Delete ends it in an error with the old
\* resource left deleted and no state; neither call is issued twice; and the
\* Update succeeds only when both steps did.
C8_ReplaceNotRolledBack ==
  ReplaceCase =>
    /\ Count(calls, "DELETE") <= 1 /\ Count(calls, "POST") <= 1
    /\ Count(calls, "POST") = 1 =>
         /\ Count(calls, "DELETE") = 1
         /\ prior.id \notin DOMAIN objects
    /\ (rpc = "idle" /\ Count(calls, "POST") = 0) =>
         /\ result.kind = "TransportError"
         /\ current = prior
    /\ (rpc = "idle" /\ Count(calls, "POST") = 1 /\ result.kind # "ok") =>
         /\ result.kind \in {"TransportError", "TimeoutError", "NotFoundError"}
         /\ current = NoState
         /\ prior.id \notin DOMAIN objects
    /\ (rpc = "idle" /\ result.kind = "ok") =>
         /\ Methods(SubSeq(calls, 1, 2)) = <<"DELETE", "POST">>
         /\ current.id # prior.id
         /\ current.id \in DOMAIN objects
         /\ current.creationState = "COMPLETED"

\* the Create of a replacement failed after its Delete had removed the resource
C8_Witness ==
  /\ ReplaceCase
  /\ rpc = "idle"
  /\ Count(calls, "POST") = 1
  /\ result.kind = "TransportError"
  /\ prior.id \in DOMAIN trigger
  /\ prior.id \notin DOMAIN objects
  /\ current = NoState

\* C9: Create ends in success only when its last status check saw COMPLETED,
\* and then returns a state with a non-empty identity and credentials that the
\* backend holds as COMPLETED; otherwise it ends in TimeoutError (no check
\* before the timeout saw COMPLETED) or in another error, with no state.
C9_CreateResult ==
  (op = "Create" /\ rpc = "idle") =>
    /\ result.kind \in {"ok", "TimeoutError", "TransportError", "NotFoundError"}
    /\ result.kind = "ok" =>
         /\ result.status = "COMPLETED"
         /\ resp.kind = "get" /\ resp.data.creationState = "COMPLETED"
         /\ current = resp.data
         /\ current.id # NoId
         /\ current.username # "" /\ current.password # ""
         /\ current.id \in DOMAIN objects
         /\ objects[current.id].State = "COMPLETED"
    /\ result.kind # "ok" => current = NoState
    /\ result.kind = "TimeoutError" =>
         /\ result.status # "COMPLETED"
         /\ Elapsed >= timeout

C9_Witness ==
  /\ op = "Create"
  /\ rpc = "idle"
  /\ result = Ok
  /\ current.creationState = "COMPLETED"
  /\ current.username = "client-user"

\* C10: a Create whose body is unparsable or lacks name, serviceClassId or
\* datacenterId, and an Update whose body is unparsable or lacks name, is
\* answered with status 500 and leaves the store as it was.
RejectedCreateBodies ==
  {Unparsable,
   Parsed(EmptyObject),
   Parsed([ValidMinimal EXCEPT !["name"] = JNil]),
   Parsed([ValidMinimal EXCEPT !["serviceClassId"] = JNil]),
   Parsed([ValidMinimal EXCEPT !["datacenterId"] = JNil])}
RejectedPatchBodies == {Unparsable, Parsed(EmptyObject)}

C10_MalformedRejected ==
  [][/\ \A body \in RejectedCreateBodies, nparts \in {5, 6} :
          Request("POST", nparts, NoId, body) =>
            resp'.status = StatusInternalServerError /\ objects' = objects
     /\ \A id \in DOMAIN objects, body \in RejectedPatchBodies :
          Request("PATCH", 6, id, body) =>
            resp'.status = StatusInternalServerError /\ objects' = objects]_vars

\* C11: an Update in which the name differs and no replace-triggering field
\* does issues one PATCH of the current identity whose body carries the name
\* and nothing else, then only status checks of that identity, and never a
\* DELETE or a POST; when it succeeds the returned state has the identity it
\* was given, the desired name and status COMPLETED.
InPlaceCase ==
  InUpdate /\ NameDiffers /\ ~ClassDiffers /\ ~DatacenterDiffers /\ ~VersionDiffers

C11_InPlaceUpdate ==
  InPlaceCase =>
    /\ rpc \notin {"replace", "create"}
    /\ Count(calls, "DELETE") = 0 /\ Count(calls, "POST") = 0
    /\ Len(calls) >= 1 =>
         /\ calls[1] = <<"PATCH", prior.id, PatchBody(desired)>>
         /\ calls[1][3].obj["name"] = JStr(desired.name)
         /\ \A k \in BodyKeys \ {"name"} : calls[1][3].obj[k] = JNil
    /\ \A i \in DOMAIN calls : i > 1 => calls[i] = <<"GET", prior.id, NoBody>>
    /\ rpc \in {"poll", "wait"} => Len(calls) >= 1
    /\ (rpc = "idle" /\ result.kind = "ok") =>
         /\ Len(calls) >= 2
         /\ result = Ok
         /\ current.id = prior.id
         /\ current.name = desired.name
         /\ current.creationState = "COMPLETED"

C11_Witness ==
  /\ InPlaceCase
  /\ rpc = "idle"
  /\ result = Ok
  /\ Methods(calls) = <<"PATCH", "GET">>
  /\ current.id = prior.id
  /\ current.name = desired.name
  /\ current.name # prior.name

\* C12: a Create that stores a record assigns it an identity that is not empty
\* and that no earlier Create has assigned, deleted records included; after
\* every request each stored record's ID is the key it is stored under; and a
\* record that stays in the store keeps its ID, so that no Get and no PATCH
\* changes it, and both answer with the identity they were asked for.
C12_Identity ==
  [][/\ (handled' # handled /\ resp'.kind = "create") =>
          LET sid == resp'.data.resourceId
          IN /\ sid # NoId
             /\ sid \notin DOMAIN trigger
             /\ sid \notin DOMAIN objects
             /\ sid \in DOMAIN objects'
             /\ DOMAIN objects' = DOMAIN objects \cup {sid}
     /\ \A id \in DOMAIN objects' : objects'[id].ID = id
     /\ \A id \in DOMAIN objects \cap DOMAIN objects' :
          objects'[id].ID = objects[id].ID
     /\ \A id \in Ids :
          (Request("GET", 6, id, NoBody) /\ resp'.kind = "get")
            => resp'.data.id = id /\ DOMAIN objects' = DOMAIN objects
     /\ \A id \in Ids, body \in ValidPatchBodies :
          (Request("PATCH", 6, id, body) /\ resp'.kind = "patch")
            => resp'.data.id = id /\ DOMAIN objects' = DOMAIN objects]_vars

\* an identity was assigned and deleted, and a later Create got another one
C12_Witness ==
  /\ resp.kind = "create"
  /\ resp.data.resourceId \in DOMAIN objects
  /\ \E id \in DOMAIN trigger :
       id # resp.data.resourceId /\ id \notin DOMAIN objects

\* C13: a DELETE of a stored identity, PENDING or COMPLETED, is accepted and
\* removes the record; an identity that was assigned and is no longer stored
\* never returns to the store; every later GET, PATCH or DELETE of it is
\* answered 404 and changes nothing; and a Read of it that the backend
\* answers ends with "not found" and no state, not with an error.
Gone == DOMAIN trigger \ DOMAIN objects

C13_DeleteRemoves ==
  [][/\ \A id \in DOMAIN objects :
          Request("DELETE", 6, id, NoBody) =>
            /\ resp'.status = StatusAccepted
            /\ objects' = Remove(objects, id)
            /\ id \in Gone'
     /\ Gone \subseteq Gone'
     /\ \A id \in Gone :
          /\ Request("GET", 6, id, NoBody) =>
               resp'.status = StatusNotFound /\ objects' = objects
          /\ Request("DELETE", 6, id, NoBody) =>
               resp'.status = StatusNotFound /\ objects' = objects
          /\ \A body \in ValidPatchBodies \cup MalformedPatchBodies :
               Request("PATCH", 6, id, body) =>
                 resp'.status = StatusNotFound /\ objects' = objects
     /\ (rpc = "read" /\ calls' # calls /\ target \in Gone
           /\ resp'.kind # "transport") =>
          /\ resp'.status = StatusNotFound
          /\ rpc' = "idle"
          /\ result' = Failed("notFound", "")
          /\ current' = NoState
          /\ objects' = objects]_vars

\* a COMPLETED resource was deleted behind the resource's back and then read
C13_Witness ==
  /\ op = "Read"
  /\ rpc = "idle"
  /\ prior # NoState
  /\ prior.creationState = "COMPLETED"
  /\ target = prior.id
  /\ target \in Gone
  /\ resp.status = StatusNotFound
  /\ result = Failed("notFound", "")
  /\ current = NoState

\* C14: a status check of a Poll that fails (the call does not get through,
\* or is not answered 200) ends the Poll in that same step with that error,
\* not with TimeoutError and without waiting, whether it is the first and
\* immediate check or a later one; status checks are made by a running Poll
\* only, and after the failure the operation issues no further call, so the
\* failing check is the Poll's last.
PollErrors == {"TransportError", "NotFoundError"}

C14_PollErrorPropagates ==
  [][/\ (rpc = "poll" /\ calls' # calls /\ resp'.status # StatusOK) =>
          /\ calls' = Append(calls, <<"GET", target, NoBody>>)
          /\ rpc' = "idle"
          /\ now' = now
          /\ result' = Failed(IF resp'.status = StatusNotFound
                              THEN "NotFoundError" ELSE "TransportError", "")
     /\ (op' \in {"Create", "Update"}
           /\ Count(calls', "GET") > Count(calls, "GET")) => rpc = "poll"
     /\ (rpc = "idle" /\ result.kind \in PollErrors) =>
          \/ calls' = calls
          \/ calls' = <<>> /\ ops' = ops + 1]_vars

\* the third status check of a Poll failed, two intervals after its start
C14_Witness ==
  /\ Polled
  /\ rpc = "idle"
  /\ result.kind = "TransportError"
  /\ resp.kind = "transport"
  /\ calls[Len(calls)][1] = "GET"
  /\ Count(calls, "GET") = 3
  /\ Elapsed = 2 * interval

\* C15: when a waiting Poll is cancelled it ends in that step, without letting
\* time pass and without a further status check, in a cancellation error that
\* is not TimeoutError; that error arises from a wait only, so before the
\* timeout has elapsed, and the operation issues no call after it.
C15_Cancellation ==
  [][/\ PollCancel =>
          /\ rpc = "wait"
          /\ rpc' = "idle"
          /\ now' = now
          /\ calls' = calls
          /\ objects' = objects
          /\ result'.kind = "CancelledError"
          /\ result'.kind # "TimeoutError"
          /\ Elapsed < timeout
          /\ current' = current
     /\ (result'.kind = "CancelledError" /\ result' # result) => rpc = "wait"
     /\ (rpc = "idle" /\ result.kind = "CancelledError") =>
          \/ calls' = calls
          \/ calls' = <<>> /\ ops' = ops + 1]_vars

\* a Create was cancelled in its second wait: the backend holds the PENDING
\* record, the resource has no state
C15_Witness ==
  /\ op = "Create"
  /\ rpc = "idle"
  /\ result = Failed("CancelledError", "")
  /\ Count(calls, "GET") = 2
  /\ Elapsed = interval
  /\ resp.kind = "get"
  /\ resp.data.creationState = "PENDING"
  /\ current = NoState

\* C16: a backend response carries a login credential (a user name or a
\* password) only when the status it reports is COMPLETED; the response of a
\* Create, a Get or a PATCH that reports PENDING carries none.
Credentials(r) ==
  IF r.kind = "get" THEN {r.data.username, r.data.password} \ {""} ELSE {}

C16_CredentialsOnlyCompleted ==
  resp.kind \in {"create", "get", "patch"} =>
    (Credentials(resp) # {} => resp.data.creationState = "COMPLETED")

\* C17: when Configure has created the client, the server URL, the token, the
\* polling interval and the polling timeout it hands on are those of the
\* configuration where the attribute is not null, and those of the environment
\* variable otherwise, an empty interval or timeout string standing for 20s or
\* 30m; an attribute that is set is used whatever the environment holds; and
\* when host and token are known, the errors Configure reports are those of
\* these effective values.
Effective(c, fromEnv) == IF c.k = "null" THEN fromEnv ELSE c.s
EffectiveHost == Effective(config.host, env.MISSIONCONTROL_HOST)
EffectiveToken == Effective(config.bearer_token, env.MISSIONCONTROL_TOKEN)
EffectiveIntervalStr ==
  Effective(config.polling_interval_duration, env.POLLING_INTERVAL_DURATION)
EffectiveTimeoutStr ==
  Effective(config.polling_timeout_duration, env.POLLING_TIMEOUT_DURATION)
EffectiveInterval ==
  ParseDuration(IF EffectiveIntervalStr = EmptyString
                THEN <<"2", "0", "s">> ELSE EffectiveIntervalStr)
EffectiveTimeout ==
  ParseDuration(IF EffectiveTimeoutStr = EmptyString
                THEN <<"3", "0", "m">> ELSE EffectiveTimeoutStr)

C17_ConfigPrecedence ==
  /\ client.set =>
       /\ diagnostics = {}
       /\ client.url = EffectiveHost
       /\ token = EffectiveToken
       /\ EffectiveInterval.ok /\ interval = EffectiveInterval.d
       /\ EffectiveTimeout.ok /\ timeout = EffectiveTimeout.d
       /\ EffectiveIntervalStr = EmptyString => interval = 20
       /\ EffectiveTimeoutStr = EmptyString => timeout = 30 * 60
       /\ config.host.k = "value" => client.url = config.host.s
       /\ config.bearer_token.k = "value" => token = config.bearer_token.s
       /\ config.polling_interval_duration.k = "value" =>
            interval = ParseDuration(
              IF config.polling_interval_duration.s = EmptyString
              THEN <<"2", "0", "s">>
              ELSE config.polling_interval_duration.s).d
       /\ config.polling_timeout_duration.k = "value" =>
            timeout = ParseDuration(
              IF config.polling_timeout_duration.s = EmptyString
              THEN <<"3", "0", "m">>
              ELSE config.polling_timeout_duration.s).d
  /\ (diagnostics # {} /\ config.host.k # "unknown"
        /\ config.bearer_token.k # "unknown"
        /\ "ClientError" \notin diagnostics) =>
       /\ "MissingHost" \in diagnostics <=> EffectiveHost = EmptyString
       /\ "MissingToken" \in diagnostics <=> EffectiveToken = EmptyString
       /\ "InvalidInterval" \in diagnostics <=> ~EffectiveInterval.ok
       /\ "InvalidTimeout" \in diagnostics <=> ~EffectiveTimeout.ok

\* every attribute has a value in the environment; the configuration sets host
\* and timeout, which win, and leaves token and interval to the environment
C17_Witness ==
  /\ client.set
  /\ config.host = TfString(<<"h", "1">>)
  /\ env.MISSIONCONTROL_HOST = <<"h", "2">>
  /\ client.url = <<"h", "1">>
  /\ config.bearer_token = TfNull
  /\ token = <<"t", "2">>
  /\ config.polling_interval_duration = TfNull
  /\ env.POLLING_INTERVAL_DURATION = <<"1", "0", "s">>
  /\ interval = 10
  /\ config.polling_timeout_duration = TfString(<<"1", "m", "3", "0", "s">>)
  /\ env.POLLING_TIMEOUT_DURATION = <<"2", "h">>
  /\ timeout = 90

\* C18: a Get whose handling starts after the answer to a PATCH of the same
\* identity reports the name that PATCH set, provided no other PATCH of the
\* identity was answered since or is in flight - also when a request on the
\* identity that started before the PATCH finishes after it.
C18_UpdateVisible ==
  [][\A r \in inflight \ inflight' :
       (/\ r.method = "GET"
        /\ resp'.kind = "get"
        /\ r.expect # NoName
        /\ acked[r.id] = r.expect
        /\ ~\E q \in inflight : q.method = "PATCH" /\ q.id = r.id)
         => resp'.data.name = r.expect]_vars

\* C19: a PATCH of a stored identity with a body that names a string is
\* answered 200; it sets the record's Name to that string, its State to
\* PENDING whatever it was, and its Updated to the time of the request; every
\* other field of the record, and every other record, stays as it was.
PatchedFields == {"Name", "State", "Updated"}

C19_PatchFrame ==
  [][\A id \in DOMAIN objects, body \in ValidPatchBodies :
       Request("PATCH", 6, id, body) =>
         /\ resp'.status = StatusOK
         /\ DOMAIN objects' = DOMAIN objects
         /\ objects'[id].Name = body.obj["name"].s
         /\ objects'[id].State = "PENDING"
         /\ objects'[id].Updated = now
         /\ DOMAIN objects'[id] = DOMAIN objects[id]
         /\ \A f \in DOMAIN objects[id] \ PatchedFields :
              objects'[id][f] = objects[id][f]
         /\ \A other \in DOMAIN objects \ {id} :
              objects'[other] = objects[other]]_vars

\* a record created with every optional field given was renamed after the
\* threshold: it is PENDING again and keeps what the Create stored
C19_Witness ==
  /\ resp.kind = "patch"
  /\ resp.data.id \in DOMAIN objects
  /\ LET sInfo == objects[resp.data.id]
     IN /\ sInfo.Name = "a"
        /\ sInfo.State = "PENDING"
        /\ sInfo.Updated = now
        /\ now - sInfo.Created > Threshold
        /\ sInfo.ServiceClassId = "c2"
        /\ sInfo.EventBrokerVersion = "v2"
        /\ sInfo.MaxSpoolUsage = 50
        /\ sInfo.ClientUsername = "client-user"

\* C20: a Get answered with COMPLETED leaves the record stored as COMPLETED; a
\* Get of a record stored as COMPLETED is answered with COMPLETED and changes
\* nothing in the store; and a record that is COMPLETED and stays in the store
\* stops being COMPLETED only in the step that answers a PATCH of it.
GetAnswered == resp'.kind = "get" /\ (handled' # handled \/ calls' # calls)

C20_CompletedIsTerminal ==
  [][/\ (GetAnswered /\ resp'.data.creationState = "COMPLETED") =>
          /\ resp'.data.id \in DOMAIN objects'
          /\ objects'[resp'.data.id].State = "COMPLETED"
     /\ (GetAnswered /\ objects[resp'.data.id].State = "COMPLETED") =>
          /\ resp'.data.creationState = "COMPLETED"
          /\ objects' = objects
     /\ \A id \in DOMAIN objects \cap DOMAIN objects' :
          (objects[id].State = "COMPLETED" /\ objects'[id].State # "COMPLETED")
            => /\ resp'.kind = "patch"
               /\ resp'.data.id = id
               /\ handled' # handled
               /\ objects'[id].State = "PENDING"]_vars

\* the last status check of a Create reported COMPLETED, no other client has
\* sent a request, and a Read then got the same state from the backend
C20_Witness ==
  /\ op = "Read"
  /\ rpc = "idle"
  /\ handled = 0
  /\ prior # NoState
  /\ prior.creationState = "COMPLETED"
  /\ result = [kind |-> "ok", status |-> "COMPLETED"]
  /\ resp.kind = "get"
  /\ current = resp.data
  /\ current = prior
  /\ objects[current.id].State = "COMPLETED"

\* C21: a request changes at most one key of the store.  One that is
\* rejected or answered not-found changes nothing at all; a Get or a PATCH
\* that is answered changes at most the record of the identity it answers
\* for, and adds and removes none; an accepted Create keeps every stored
\* record and adds exactly one; an accepted Delete removes exactly the record
\* it answers for and keeps every other.
Changed ==
  {i \in DOMAIN objects \cup DOMAIN objects' :
     \/ i \notin DOMAIN objects
     \/ i \notin DOMAIN objects'
     \/ objects'[i] # objects[i]}

C21_Isolation ==
  [][handled' # handled =>
          /\ Cardinality(Changed) <= 1
          /\ resp'.kind \in {"error", "panic"} => objects' = objects
          /\ resp'.kind = "create" =>
               /\ Changed = {resp'.data.resourceId}
               /\ DOMAIN objects' = DOMAIN objects \cup Changed
               /\ Cardinality(DOMAIN objects') = Cardinality(DOMAIN objects) + 1
          /\ resp'.kind = "delete" =>
               /\ Changed = {resp'.data.resourceId}
               /\ DOMAIN objects' = DOMAIN objects \ Changed
               /\ Cardinality(DOMAIN objects') = Cardinality(DOMAIN objects) - 1
          /\ resp'.kind \in {"get", "patch"} =>
               /\ Changed \subseteq {resp'.data.id}
               /\ DOMAIN objects' = DOMAIN objects]_vars

\* two records were stored and one of them was deleted: the other is there
C21_Witness ==
  /\ resp.kind = "delete"
  /\ resp.data.resourceId \notin DOMAIN objects
  /\ Cardinality(DOMAIN trigger) = 2
  /\ Cardinality(DOMAIN objects) = 1

\* C22: under concurrent handling, an identity that was assigned and is no
\* longer in the store (its Delete has removed the record) is not put back by
\* any later step, in particular not by the handler of a request on it that
\* looked the record up before the Delete.
C22_NoResurrection ==
  [][\A id \in DOMAIN trigger :
       id \notin DOMAIN objects => id \notin DOMAIN objects']_vars

\* C23: when the effective host or the effective token is empty, or the
\* interval or timeout string is no duration, a Configure that ends records
\* an error, creates no client and sets no provider data; whenever it records
\* an error it sets none; and it creates the client, with no error recorded,
\* only when all four values are valid.
Invalid ==
  \/ EffectiveHost = EmptyString
  \/ EffectiveToken = EmptyString
  \/ ~EffectiveInterval.ok
  \/ ~EffectiveTimeout.ok
NoProviderData ==
  ~client.set /\ token = EmptyString /\ interval = 0 /\ timeout = 0

C23_FailsClosed ==
  [][/\ (Unconfigured /\ Invalid) => (diagnostics' # {} /\ NoProviderData')
     /\ diagnostics' # {} => NoProviderData'
     /\ client'.set => (~Invalid /\ diagnostics' = {})
     /\ Unconfigured => (diagnostics' # {} \/ client'.set)]_vars

\* host and token are given and the environment's interval is valid, but the
\* configuration's interval is not: Configure ended with that error only
C23_Witness ==
  /\ EffectiveHost # EmptyString
  /\ EffectiveToken # EmptyString
  /\ EffectiveTimeout.ok
  /\ config.polling_interval_duration = TfString(<<"x">>)
  /\ env.POLLING_INTERVAL_DURATION = <<"1", "0", "s">>
  /\ diagnostics = {"InvalidInterval"}
  /\ NoProviderData

====
